---------------------------- MODULE Spec2Model ----------------------------
(***************************************************************************)
(* Model of the Hadamard custom device of AcceleratedQC:                   *)
(*   catalyst/runtime/lib/backend/custom_device/CustomDevice.{hpp,cpp}     *)
(*   catalyst/runtime/lib/backend/custom_device/HadamardKernelWrapper.cpp  *)
(*   Kernels/src/hadamard_host_xrt.cpp                                     *)
(*                                                                         *)
(* Amplitudes are kept exact.  A real number is <<p, q, k, e>>, standing   *)
(* for (p + q*sqrt(2)) / 2^k in lowest terms; e = 1 marks a value that was *)
(* rounded to single precision on the accelerator path and is therefore    *)
(* only approximately the number written.  A complex amplitude is the      *)
(* record [re, im].  C++ index i of a vector is index i + 1 of a sequence. *)
(***************************************************************************)
EXTENDS Integers, Sequences, FiniteSets, TLC

\* Bounds of the model: the largest qubit count allocated, the number of
\* Hadamard requests dispatched in a run of the device, and the number of
\* consecutive applications of the CPU kernel on its own.
MaxQubits == 2
MaxGates == 1
MaxApply == 2

Pow2(n) == 2 ^ n
Max(a, b) == IF a >= b THEN a ELSE b

----------------------------------------------------------------------------
\* Exact arithmetic on (p + q*sqrt(2)) / 2^k

RECURSIVE Norm(_)
Norm(x) ==
    IF x[3] > 0 /\ x[1] % 2 = 0 /\ x[2] % 2 = 0
    THEN Norm(<<x[1] \div 2, x[2] \div 2, x[3] - 1, x[4]>>)
    ELSE x

R(p, q, k) == Norm(<<p, q, k, 0>>)

RAdd(a, b) ==
    LET K == Max(a[3], b[3])
    IN  Norm(<<a[1] * Pow2(K - a[3]) + b[1] * Pow2(K - b[3]),
               a[2] * Pow2(K - a[3]) + b[2] * Pow2(K - b[3]),
               K, Max(a[4], b[4])>>)

RNeg(a) == <<0 - a[1], 0 - a[2], a[3], a[4]>>

RSub(a, b) == RAdd(a, RNeg(b))

\* multiplication by sqrt2_inv = 1/sqrt(2):
\*   (p + q*sqrt 2)/2^k * sqrt(2)/2 = (2q + p*sqrt 2)/2^(k+1)
RScale(a) == Norm(<<2 * a[2], a[1], a[3] + 1, a[4]>>)

\* static_cast<float>: a dyadic value of the model is kept, any other value
\* is rounded and from then on carries the single-precision mark.
RToFloat(a) == IF a[2] = 0 THEN a ELSE <<a[1], a[2], a[3], 1>>

Cx(re, im) == [re |-> re, im |-> im]
CAdd(a, b) == Cx(RAdd(a.re, b.re), RAdd(a.im, b.im))
CSub(a, b) == Cx(RSub(a.re, b.re), RSub(a.im, b.im))
\* sqrt2_inv taken as 1/2
CScale_Half(a) == Cx(Norm(<<a.re[1], a.re[2], a.re[3] + 1, a.re[4]>>),
                     Norm(<<a.im[1], a.im[2], a.im[3] + 1, a.im[4]>>))
CScale(a) == Cx(RScale(a.re), RScale(a.im))
CToFloat(a) == Cx(RToFloat(a.re), RToFloat(a.im))
\* float -> double is exact
CToDouble(a) == a

Zero == Cx(R(0, 0, 0), R(0, 0, 0))
One == Cx(R(1, 0, 0), R(0, 0, 0))
MinusOne == Cx(R(-1, 0, 0), R(0, 0, 0))
ImagI == Cx(R(0, 0, 0), R(1, 0, 0))
InvSqrt2 == CScale(One)

\* |0...0> on a buffer of length len
Basis(len) == [i \in 1..len |-> IF i = 1 THEN One ELSE Zero]

----------------------------------------------------------------------------
\* i ^ (1ULL << wire) on non-negative i
XorBit(i, wire) ==
    IF (i \div Pow2(wire)) % 2 = 0 THEN i + Pow2(wire) ELSE i - Pow2(wire)

\* Element idx of a vector of the given contents; a read past the end is
\* undefined behaviour and yields the value g.
At(v, idx, g) == IF idx < Len(v) THEN v[idx + 1] ELSE g

\* v[idx] = x; a write past the end does not land in the vector.
Put(v, idx, x) == IF idx < Len(v) THEN [v EXCEPT ![idx + 1] = x] ELSE v


----------------------------------------------------------------------------
\* CustomDevice::applyHadamardCPU, the loop over i in [0, dim)
RECURSIVE CPULoop(_, _, _, _, _, _)
CPULoop(i, dim, new_state, st, wire, g) ==
    IF i >= dim THEN new_state
    ELSE LET idx0 == i
             idx1 == XorBit(i, wire)
         IN  IF idx0 < idx1
             THEN CPULoop(i + 1, dim,
                          Put(Put(new_state, idx0,
                                  CScale(CAdd(At(st, idx0, g), At(st, idx1, g)))),
                              idx1,
                              CScale(CSub(At(st, idx0, g), At(st, idx1, g)))),
                          st, wire, g)
             ELSE CPULoop(i + 1, dim, new_state, st, wire, g)

\* applyHadamardCPU with the second output of the butterfly given the sign
\* of the first.
RECURSIVE CPULoop_SignSlip(_, _, _, _, _, _)
CPULoop_SignSlip(i, dim, new_state, st, wire, g) ==
    IF i >= dim THEN new_state
    ELSE LET idx0 == i
             idx1 == XorBit(i, wire)
         IN  IF idx0 < idx1
             THEN CPULoop_SignSlip(i + 1, dim,
                          Put(Put(new_state, idx0,
                                  CScale(CAdd(At(st, idx0, g), At(st, idx1, g)))),
                              idx1,
                              CScale(CAdd(At(st, idx0, g), At(st, idx1, g)))),
                          st, wire, g)
             ELSE CPULoop_SignSlip(i + 1, dim, new_state, st, wire, g)

applyHadamardCPU_SignSlip(st, n, wire, g) ==
    CPULoop_SignSlip(0, Pow2(n), [i \in 1..Pow2(n) |-> Zero], st, wire, g)

\* The buffer CustomDevice::applyHadamardCPU installs as state_.
\* applyHadamardCPU updating the buffer in place: the second output of a
\* butterfly reads the first output instead of the old amplitude.
RECURSIVE CPULoop_InPlace(_, _, _, _, _)
CPULoop_InPlace(i, dim, st, wire, g) ==
    IF i >= dim THEN st
    ELSE LET idx0 == i
             idx1 == XorBit(i, wire)
             st0 == Put(st, idx0, CScale(CAdd(At(st, idx0, g), At(st, idx1, g))))
         IN  IF idx0 < idx1
             THEN CPULoop_InPlace(i + 1, dim,
                          Put(st0, idx1,
                              CScale(CSub(At(st0, idx0, g), At(st0, idx1, g)))),
                          wire, g)
             ELSE CPULoop_InPlace(i + 1, dim, st, wire, g)

applyHadamardCPU_InPlace(st, n, wire, g) ==
    CPULoop_InPlace(0, Pow2(n), st, wire, g)

\* The writes of the loop of applyHadamardCPU in the order they are made:
\* one entry <<idx0, idx1>> for each pass that takes the branch idx0 < idx1.
RECURSIVE CPUWrites(_, _, _, _)
CPUWrites(i, dim, wire, log) ==
    IF i >= dim THEN log
    ELSE LET idx0 == i
             idx1 == XorBit(i, wire)
         IN  IF idx0 < idx1
             THEN CPUWrites(i + 1, dim, wire, Append(log, <<idx0, idx1>>))
             ELSE CPUWrites(i + 1, dim, wire, log)

\* applyHadamardCPU with wire 0 taken as the most significant bit
applyHadamardCPU_BigEndian(st, n, wire, g) ==
    CPULoop(0, Pow2(n), [i \in 1..Pow2(n) |-> Zero], st, n - 1 - wire, g)

applyHadamardCPU(st, n, wire, g) ==
    CPULoop(0, Pow2(n), [i \in 1..Pow2(n) |-> Zero], st, wire, g)

\* Whether that loop indexes state_ or new_state past the end.
CPUOutOfBounds(st, n, wire) ==
    \E i \in 0..(Pow2(n) - 1) :
        /\ i < XorBit(i, wire)
        /\ \/ i >= Len(st)
           \/ XorBit(i, wire) >= Len(st)
           \/ XorBit(i, wire) >= Pow2(n)

----------------------------------------------------------------------------
\* The accelerator: what the programmed tile array leaves in output_bo.
\* For a target inside [0, n) it is the single-precision butterfly; for any
\* other target the contents are unspecified (every element is g).
DeviceRun(input, target, n, g) ==
    IF target < n
    THEN [i \in 1..Len(input) |->
            LET a == (i - 1)
                b == XorBit(i - 1, target)
            IN  IF a < b
                THEN CToFloat(CScale(CAdd(input[a + 1], input[b + 1])))
                ELSE CToFloat(CScale(CSub(input[b + 1], input[a + 1])))]
    ELSE [i \in 1..Len(input) |-> g]

\* hadamard_host_xrt without the check of the input length.
hadamard_host_xrt_NoGuard(input_state, output_state, target, n, env) ==
    IF env.fault = "xrt" \/ ~env.file
    THEN [status |-> -2, output |-> output_state, device |-> TRUE]
    ELSE [status |-> 0,
          output |-> DeviceRun(input_state, target, n, env.g),
          device |-> TRUE]

\* hadamard_host_xrt with a catch block that reports success.
hadamard_host_xrt_Swallow(input_state, output_state, target, n, env) ==
    IF Len(input_state) # Pow2(n)
    THEN [status |-> -1, output |-> output_state, device |-> FALSE]
    ELSE IF env.fault = "xrt" \/ ~env.file
         THEN [status |-> 0, output |-> output_state, device |-> TRUE]
         ELSE [status |-> 0,
               output |-> DeviceRun(input_state, target, n, env.g),
               device |-> TRUE]

\* hadamard_host_xrt.  env.fault = "xrt" is a fault thrown by the device
\* stack, env.file says whether the bitstream is on disk now.
hadamard_host_xrt(input_state, output_state, target, n, env) ==
    IF Len(input_state) # Pow2(n)
    THEN [status |-> -1, output |-> output_state, device |-> FALSE]
    ELSE IF env.fault = "xrt" \/ ~env.file
         THEN [status |-> -2, output |-> output_state, device |-> TRUE]
         ELSE [status |-> 0,
               output |-> DeviceRun(input_state, target, n, env.g),
               device |-> TRUE]

\* The software path without the temporaries: the second output of a
\* butterfly reads the element the first output has just overwritten.
RECURSIVE SoftLoop_NoTemp(_, _, _, _, _)
SoftLoop_NoTemp(i, dim, output_state, target, g) ==
    IF i >= dim THEN output_state
    ELSE LET idx0 == i
             idx1 == XorBit(i, target)
             out0 == Put(output_state, idx0,
                         CScale(CAdd(At(output_state, idx0, g),
                                     At(output_state, idx1, g))))
         IN  IF idx0 < idx1
             THEN SoftLoop_NoTemp(i + 1, dim,
                           Put(out0, idx1,
                               CScale(CSub(At(out0, idx0, g), At(out0, idx1, g)))),
                           target, g)
             ELSE SoftLoop_NoTemp(i + 1, dim, output_state, target, g)

\* The software path of hadamard_kernel_execute (no HAS_HADAMARD_KERNEL):
\* in-place butterfly on a copy of the input.
RECURSIVE SoftLoop(_, _, _, _, _)
SoftLoop(i, dim, output_state, target, g) ==
    IF i >= dim THEN output_state
    ELSE LET idx0 == i
             idx1 == XorBit(i, target)
             temp0 == At(output_state, idx0, g)
             temp1 == At(output_state, idx1, g)
         IN  IF idx0 < idx1
             THEN SoftLoop(i + 1, dim,
                           Put(Put(output_state, idx0, CScale(CAdd(temp0, temp1))),
                               idx1, CScale(CSub(temp0, temp1))),
                           target, g)
             ELSE SoftLoop(i + 1, dim, output_state, target, g)

SoftOutOfBounds(input_state, n, target) ==
    \E i \in 0..(Pow2(n) - 1) :
        /\ i < XorBit(i, target)
        /\ XorBit(i, target) >= Len(input_state)

\* hadamard_kernel_execute.  env.kernel is the build: TRUE with
\* HAS_HADAMARD_KERNEL.  env.fault = "alloc" is an exception thrown inside
\* the wrapper's own try block.
hadamard_kernel_execute(input_state, output_state, target, n, env) ==
    IF env.kernel
    THEN IF env.fault = "alloc"
         THEN [status |-> -1, output |-> output_state, oob |-> FALSE,
               device |-> FALSE]
         ELSE LET input_cfloat == [i \in 1..Len(input_state) |->
                                      CToFloat(input_state[i])]
                  output_cfloat == [i \in 1..Len(input_state) |-> Zero]
                  r == hadamard_host_xrt(input_cfloat, output_cfloat,
                                         target, n, env)
              IN  IF r.status = 0
                  THEN [status |-> 0,
                        output |-> [i \in 1..Len(r.output) |->
                                       CToDouble(r.output[i])],
                        oob |-> FALSE, device |-> r.device]
                  ELSE [status |-> r.status, output |-> output_state,
                        oob |-> FALSE, device |-> r.device]
    ELSE [status |-> 0,
          output |-> SoftLoop(0, Pow2(n), input_state, target, env.g),
          oob |-> SoftOutOfBounds(input_state, n, target),
          device |-> FALSE]

\* The accelerator branch of CustomDevice::applyHadamard with the fallback
\* dropped: a failed call leaves the output buffer as the new state.
AcceleratedHadamard_NoFallback(st, n, wire, env) ==
    LET output_state == [i \in 1..Len(st) |-> Zero]
        r == hadamard_kernel_execute(st, output_state, wire, n, env)
    IN  [state |-> r.output, path |-> <<"fpga">>,
         status |-> <<r.status>>, oob |-> r.oob]

\* The accelerator branch of CustomDevice::applyHadamard running the CPU
\* kernel after the accelerator whatever the status.
AcceleratedHadamard_AlsoCPU(st, n, wire, env) ==
    LET output_state == [i \in 1..Len(st) |-> Zero]
        r == hadamard_kernel_execute(st, output_state, wire, n, env)
    IN  [state |-> applyHadamardCPU(IF r.status = 0 THEN r.output ELSE st,
                                    n, wire, env.g),
         path |-> <<"fpga", "cpu">>, status |-> <<r.status>>,
         oob |-> r.oob \/ CPUOutOfBounds(st, n, wire)]

\* The accelerator branch of CustomDevice::applyHadamard.  path lists the
\* kernels run, in order; status the accelerator's return values.
AcceleratedHadamard(st, n, wire, env) ==
    LET output_state == [i \in 1..Len(st) |-> Zero]
        r == hadamard_kernel_execute(st, output_state, wire, n, env)
    IN  IF r.status = 0
        THEN [state |-> r.output, path |-> <<"fpga">>,
              status |-> <<r.status>>, oob |-> r.oob]
        ELSE [state |-> applyHadamardCPU(st, n, wire, env.g),
              path |-> <<"fpga", "cpu">>, status |-> <<r.status>>,
              oob |-> CPUOutOfBounds(st, n, wire)]

\* CustomDevice::applyHadamard trying the accelerator whatever the flag says.
applyHadamard_IgnoreFlag(st, n, use_fpga, wire, env) ==
    AcceleratedHadamard(st, n, wire, env)

\* CustomDevice::applyHadamard
applyHadamard(st, n, use_fpga, wire, env) ==
    IF use_fpga
    THEN AcceleratedHadamard(st, n, wire, env)
    ELSE [state |-> applyHadamardCPU(st, n, wire, env.g),
          path |-> <<"cpu">>, status |-> <<>>,
          oob |-> CPUOutOfBounds(st, n, wire)]

----------------------------------------------------------------------------
\* std::vector::resize(dim, 0.0): the first min(size, dim) elements are
\* kept, the new ones are 0.
Resize(v, dim) == [i \in 1..dim |-> IF i <= Len(v) THEN v[i] ELSE Zero]

\* CustomDevice::CustomDevice: use_fpga_ starts as the header's default and
\* is cleared when the bitstream file does not exist.
Constructor(use_fpga_default, file_exists) ==
    [num_qubits |-> 0, state |-> <<>>,
     use_fpga |-> IF use_fpga_default THEN file_exists ELSE FALSE]

\* CustomDevice::useFPGAKernel
useFPGAKernel(use_fpga) == use_fpga

\* CustomDevice::AllocateQubit
AllocateQubit(st, n) ==
    LET new_num_qubits == n + 1
        dim == Pow2(new_num_qubits)
    IN  [state |-> Put(Resize(st, dim), 0, One),
         num_qubits |-> new_num_qubits,
         ret |-> <<new_num_qubits - 1>>]

\* AllocateQubits numbering the new qubits from 0.
AllocateQubits_FromZero(st, n, num_qubits) ==
    IF num_qubits = 0
    THEN [state |-> st, num_qubits |-> n, ret |-> <<>>]
    ELSE [state |-> Put(Resize(st, Pow2(n + num_qubits)), 0, One),
          num_qubits |-> n + num_qubits,
          ret |-> [i \in 1..num_qubits |-> i - 1]]

\* AllocateQubits without the early return for a request of zero qubits.
AllocateQubits_NoEarlyReturn(st, n, num_qubits) ==
    [state |-> Put(Resize(st, Pow2(n + num_qubits)), 0, One),
     num_qubits |-> n + num_qubits,
     ret |-> [i \in 1..num_qubits |-> n + (i - 1)]]

\* CustomDevice::AllocateQubits
AllocateQubits(st, n, num_qubits) ==
    IF num_qubits = 0
    THEN [state |-> st, num_qubits |-> n, ret |-> <<>>]
    ELSE LET current_num_qubits == n
             new_num_qubits == current_num_qubits + num_qubits
             dim == Pow2(new_num_qubits)
         IN  [state |-> Put(Resize(st, dim), 0, One),
              num_qubits |-> new_num_qubits,
              ret |-> [i \in 1..num_qubits |-> current_num_qubits + (i - 1)]]

\* ReleaseQubit releasing only an identifier that is allocated.
ReleaseQubit_Selective(st, n, id) ==
    IF n > 0 /\ id < n
    THEN [state |-> Put(Resize(st, Pow2(n - 1)), 0, One), num_qubits |-> n - 1]
    ELSE [state |-> st, num_qubits |-> n]

\* ReleaseQubit lowering the count without resizing the buffer.
ReleaseQubit_NoResize(st, n, id) ==
    IF n > 0
    THEN [state |-> Put(st, 0, One), num_qubits |-> n - 1]
    ELSE [state |-> st, num_qubits |-> n]

\* CustomDevice::ReleaseQubit; the identifier is an unnamed parameter
ReleaseQubit(st, n, id) ==
    IF n > 0
    THEN LET new_num_qubits == n - 1
             dim == Pow2(new_num_qubits)
         IN  [state |-> Put(Resize(st, dim), 0, One),
              num_qubits |-> new_num_qubits]
    ELSE [state |-> st, num_qubits |-> n]

\* CustomDevice::ReleaseAllQubits
ReleaseAllQubits(st, n) == [state |-> <<>>, num_qubits |-> 0]

\* CustomDevice::GetNumQubits
GetNumQubits(n) == n

\* Measure honouring a postselected outcome
Measure_Postselect(wire, postselect) == postselect # 0

\* CustomDevice::Measure: new bool(true)
Measure(wire, postselect) == TRUE

\* getState copying as much as fits instead of checking the sizes.
getState_NoCheck(st, caller) ==
    [err |-> "none",
     view |-> [i \in 1..Len(caller) |-> IF i <= Len(st) THEN st[i] ELSE caller[i]]]

\* CustomDevice::getState
getState(st, caller) ==
    IF Len(caller) # Len(st)
    THEN [err |-> "SizeMismatch", view |-> caller]
    ELSE [err |-> "none", view |-> [i \in 1..Len(caller) |-> st[i]]]

\* The condition under which CustomDevice::NamedOperation applies the gate.
Accepts(req) ==
    /\ req.name = "Hadamard"
    /\ Len(req.wires) = 1
    /\ Len(req.params) = 0
    /\ Len(req.ctrl_wires) = 0
    /\ ~req.inverse

\* CustomDevice::NamedOperation
NamedOperation(st, n, use_fpga, req, env) ==
    IF Accepts(req)
    THEN LET r == applyHadamard(st, n, useFPGAKernel(use_fpga), req.wires[1], env)
         IN  [state |-> r.state, err |-> "none", path |-> r.path,
              status |-> r.status, oob |-> r.oob]
    ELSE [state |-> st, err |-> "UnsupportedOperation", path |-> <<>>,
          status |-> <<>>, oob |-> FALSE]

----------------------------------------------------------------------------
VARIABLES
    num_qubits_,    \* CustomDevice::num_qubits_
    state_,         \* CustomDevice::state_
    use_fpga_,      \* CustomDevice::use_fpga_
    xclbin_file,    \* whether the file xclbin_path_ names exists on disk
    kernel_build,   \* whether the build defines HAS_HADAMARD_KERNEL
    crashed,        \* the process died on an out-of-bounds access
    last,           \* the latest facade call: arguments, result, pre-state
    gates           \* number of Hadamard requests dispatched so far

vars == <<num_qubits_, state_, use_fpga_, xclbin_file, kernel_build, crashed,
          last, gates>>

NoReq == [name |-> "", params |-> <<>>, wires |-> <<>>, inverse |-> FALSE,
          ctrl_wires |-> <<>>, ctrl_values |-> <<>>]

\* The record of a call; view0 and view are the caller's DataView before
\* and after a State call; kwire is the wire the CPU kernel ran on in this
\* call (or -1), pwire and before2 are kwire and before of the call ahead
\* of it; fault is the fault the device stack raised in this call; pshots
\* is, for GetDeviceShots, the argument of a SetDeviceShots call right
\* ahead of it (or -1).
Call(op, req, arg, ret, err, r) ==
    [op |-> op, req |-> req, arg |-> arg, ret |-> ret, err |-> err,
     before |-> state_, before_n |-> num_qubits_,
     path |-> r.path, status |-> r.status, oob |-> r.oob,
     view0 |-> r.view0, view |-> r.view,
     kwire |-> r.kwire, pwire |-> last.kwire,
     before2 |-> IF last.kwire >= 0 THEN last.before ELSE <<>>,
     fault |-> r.fault,
     pshots |-> IF op = "GetDeviceShots" /\ last.op = "SetDeviceShots"
                THEN last.arg ELSE -1]

Quiet == [path |-> <<>>, status |-> <<>>, oob |-> FALSE, view0 |-> <<>>,
          view |-> <<>>, kwire |-> -1, fault |-> "none"]

Wires == 0..MaxQubits
\* The supported request on wire w
Hadamard(w) == [name |-> "Hadamard", params |-> <<>>, wires |-> <<w>>,
                inverse |-> FALSE, ctrl_wires |-> <<>>, ctrl_values |-> <<>>]
\* The requests tried: the supported one on every wire, every request that
\* differs from it in one field, and one that differs in several.
Requests ==
    {Hadamard(w) : w \in Wires}
    \cup {[Hadamard(0) EXCEPT !.name = "PauliX"],
          [Hadamard(0) EXCEPT !.params = <<0>>],
          [Hadamard(0) EXCEPT !.wires = <<>>],
          [Hadamard(0) EXCEPT !.wires = <<0, 1>>],
          [Hadamard(0) EXCEPT !.inverse = TRUE],
          [Hadamard(0) EXCEPT !.ctrl_wires = <<1>>],
          [Hadamard(0) EXCEPT !.ctrl_values = <<TRUE>>],
          [Hadamard(1) EXCEPT !.name = "PauliX", !.inverse = TRUE]}
Garbage == {Zero, One}
Faults == {"none", "xrt", "alloc"}
CallerViews == {[i \in 1..len |-> MinusOne] : len \in {0} \cup {Pow2(k) : k \in 0..MaxQubits}}

Init ==
    /\ xclbin_file \in BOOLEAN
    /\ kernel_build \in BOOLEAN
    /\ LET d == Constructor(TRUE, xclbin_file)
       IN  /\ num_qubits_ = d.num_qubits
           /\ state_ = d.state
           /\ use_fpga_ = d.use_fpga
    /\ crashed = FALSE
    /\ last = [op |-> "CustomDevice", req |-> NoReq, arg |-> 0, ret |-> <<>>,
               err |-> "none", before |-> <<>>, before_n |-> 0,
               path |-> <<>>, status |-> <<>>, oob |-> FALSE, view0 |-> <<>>,
               view |-> <<>>, kwire |-> -1, pwire |-> -1, before2 |-> <<>>,
               fault |-> "none", pshots |-> -1]
    /\ gates = 0

Live == ~crashed
Idle == UNCHANGED gates
Config == UNCHANGED <<use_fpga_, xclbin_file, kernel_build>>

DoAllocateQubit ==
    /\ Live /\ num_qubits_ + 1 <= MaxQubits
    /\ \E r \in {AllocateQubit(state_, num_qubits_)} :
           /\ state_' = r.state
           /\ num_qubits_' = r.num_qubits
           /\ last' = Call("AllocateQubit", NoReq, 0, r.ret, "none", Quiet)
    /\ Idle /\ Config /\ UNCHANGED crashed

DoAllocateQubits ==
    /\ Live
    /\ \E num \in 0..MaxQubits :
        /\ num_qubits_ + num <= MaxQubits
        /\ \E r \in {AllocateQubits(state_, num_qubits_, num)} :
               /\ state_' = r.state
               /\ num_qubits_' = r.num_qubits
               /\ last' = Call("AllocateQubits", NoReq, num, r.ret, "none", Quiet)
    /\ Idle /\ Config /\ UNCHANGED crashed

DoReleaseQubit ==
    /\ Live
    /\ \E id \in {0, MaxQubits} :
        \E r \in {ReleaseQubit(state_, num_qubits_, id)} :
            /\ state_' = r.state
            /\ num_qubits_' = r.num_qubits
            /\ last' = Call("ReleaseQubit", NoReq, id, <<>>, "none", Quiet)
    /\ Idle /\ Config /\ UNCHANGED crashed

DoReleaseAllQubits ==
    /\ Live
    /\ \E r \in {ReleaseAllQubits(state_, num_qubits_)} :
           /\ state_' = r.state
           /\ num_qubits_' = r.num_qubits
           /\ last' = Call("ReleaseAllQubits", NoReq, 0, <<>>, "none", Quiet)
    /\ Idle /\ Config /\ UNCHANGED crashed

DoGetNumQubits ==
    /\ Live
    /\ last' = Call("GetNumQubits", NoReq, 0, <<GetNumQubits(num_qubits_)>>,
                    "none", Quiet)
    /\ Idle /\ Config /\ UNCHANGED <<num_qubits_, state_, crashed>>

DoSetDeviceShots ==
    /\ Live
    /\ \E shots \in {0, 1000} :
        last' = Call("SetDeviceShots", NoReq, shots, <<>>, "none", Quiet)
    /\ Idle /\ Config /\ UNCHANGED <<num_qubits_, state_, crashed>>

\* GetDeviceShots handing back what SetDeviceShots was given
GetDeviceShots_Stored == IF last.op = "SetDeviceShots" THEN last.arg ELSE 0

\* CustomDevice::GetDeviceShots
GetDeviceShots == 0

DoGetDeviceShots ==
    /\ Live
    /\ last' = Call("GetDeviceShots", NoReq, 0, <<GetDeviceShots>>, "none", Quiet)
    /\ Idle /\ Config /\ UNCHANGED <<num_qubits_, state_, crashed>>

\* Whether the request's wire indexes inside the buffer as it is now.
InRange(req) ==
    /\ req.wires[1] < num_qubits_
    /\ Len(state_) = Pow2(num_qubits_)

\* An out-of-bounds access either kills the process (the call never
\* returns and nothing is installed) or goes through with the value g read.
DoNamedOperation ==
    /\ Live
    /\ \E req \in Requests :
       \E fault \in (IF Accepts(req) /\ use_fpga_ /\ kernel_build
                     THEN Faults ELSE {"none"}),
          g \in (IF Accepts(req) /\ ~InRange(req) THEN Garbage ELSE {Zero}),
          dies \in (IF Accepts(req) /\ ~InRange(req) THEN BOOLEAN ELSE {FALSE}) :
       \E r \in {NamedOperation(state_, num_qubits_, use_fpga_, req,
                                [kernel |-> kernel_build, file |-> xclbin_file,
                                 fault |-> fault, g |-> g])} :
        LET kw == IF r.err = "none" /\ ~r.oob /\ r.path # <<"fpga">>
                  THEN req.wires[1] ELSE -1
            rec == [path |-> r.path, status |-> r.status, oob |-> r.oob,
                    view0 |-> <<>>, view |-> <<>>, kwire |-> kw,
                    fault |-> fault]
        IN  /\ r.oob \/ ~dies
            /\ Accepts(req) => gates < MaxGates
            /\ gates' = IF Accepts(req) THEN gates + 1 ELSE gates
            /\ crashed' = (r.oob /\ dies)
            /\ state_' = IF r.oob /\ dies THEN state_ ELSE r.state
            /\ last' = Call("NamedOperation", req, 0, <<>>,
                            IF r.oob /\ dies THEN "crash" ELSE r.err, rec)
    /\ Config /\ UNCHANGED num_qubits_

DoMeasure ==
    /\ Live
    /\ \E m \in {<<0, -1>>, <<0, 1>>, <<MaxQubits, 0>>} :
        last' = Call("Measure", NoReq, m[1],
                     <<IF Measure(m[1], m[2]) THEN 1 ELSE 0>>, "none", Quiet)
    /\ Idle /\ Config /\ UNCHANGED <<num_qubits_, state_, crashed>>

DoTapeRecording ==
    /\ Live
    /\ \E op \in {"StartTapeRecording", "StopTapeRecording"} :
        last' = Call(op, NoReq, 0, <<>>, "none", Quiet)
    /\ Idle /\ Config /\ UNCHANGED <<num_qubits_, state_, crashed>>

DoState ==
    /\ Live
    /\ \E caller \in CallerViews :
        \E r \in {getState(state_, caller)} :
            last' = Call("State", NoReq, 0, <<>>, r.err,
                         [Quiet EXCEPT !.view0 = caller, !.view = r.view])
    /\ Idle /\ Config /\ UNCHANGED <<num_qubits_, state_, crashed>>

\* The environment creates or removes the bitstream file.
BitstreamChange ==
    /\ Live
    /\ xclbin_file' = ~xclbin_file
    /\ UNCHANGED <<num_qubits_, state_, use_fpga_, kernel_build, crashed, last,
                   gates>>

Next ==
    \/ DoAllocateQubit
    \/ DoAllocateQubits
    \/ DoReleaseQubit
    \/ DoReleaseAllQubits
    \/ DoGetNumQubits
    \/ DoSetDeviceShots
    \/ DoGetDeviceShots
    \/ DoNamedOperation
    \/ DoMeasure
    \/ DoTapeRecording
    \/ DoState
    \/ BitstreamChange

Spec == Init /\ [][Next]_vars

----------------------------------------------------------------------------
\* The CPU kernel on its own: every buffer of 0/1 amplitudes of length 2^n
\* for n up to MaxQubits, and every buffer with one amplitude 1, -1, i or
\* 1/sqrt(2) for n up to MaxQubits + 1, is transformed on in-range targets,
\* up to MaxApply times in a row.
KernelInputs(n) ==
    (IF n <= MaxQubits THEN [1..Pow2(n) -> {Zero, One}] ELSE {})
    \cup {[i \in 1..Pow2(n) |-> IF i = j THEN a ELSE Zero] :
            j \in 1..Pow2(n), a \in {One, MinusOne, ImagI, InvSqrt2}}

InitKernel ==
    /\ num_qubits_ \in 1..(MaxQubits + 1)
    /\ state_ \in KernelInputs(num_qubits_)
    /\ use_fpga_ = FALSE
    /\ xclbin_file = FALSE
    /\ kernel_build = FALSE
    /\ crashed = FALSE
    /\ last = [op |-> "input", req |-> NoReq, arg |-> 0, ret |-> <<>>,
               err |-> "none", before |-> <<>>, before_n |-> 0,
               path |-> <<>>, status |-> <<>>, oob |-> FALSE, view0 |-> <<>>,
               view |-> <<>>, kwire |-> -1, pwire |-> -1, before2 |-> <<>>,
               fault |-> "none", pshots |-> -1]
    /\ gates = 0

KernelStep ==
    /\ gates < MaxApply
    /\ \E wire \in 0..(num_qubits_ - 1) :
        /\ state_' = applyHadamardCPU(state_, num_qubits_, wire, Zero)
        /\ last' = Call("applyHadamardCPU", NoReq, wire, <<>>, "none",
                        [Quiet EXCEPT !.path = <<"cpu">>, !.kwire = wire])
    /\ gates' = gates + 1
    /\ Config /\ UNCHANGED <<num_qubits_, crashed>>

\* hadamard_kernel_execute on the same inputs, in the build this
\* specification fixes (kernel_build = FALSE)
SoftStep ==
    /\ gates < MaxApply
    /\ \E wire \in 0..(num_qubits_ - 1) :
       \E r \in {hadamard_kernel_execute(
                     state_, [i \in 1..Len(state_) |-> Zero], wire, num_qubits_,
                     [kernel |-> kernel_build, file |-> xclbin_file,
                      fault |-> "none", g |-> Zero])} :
        /\ state_' = r.output
        /\ last' = Call("hadamard_kernel_execute", NoReq, wire, <<>>, "none",
                        [Quiet EXCEPT !.path = <<"fpga">>,
                                      !.status = <<r.status>>, !.oob = r.oob])
    /\ gates' = gates + 1
    /\ Config /\ UNCHANGED <<num_qubits_, crashed>>

NextKernel == KernelStep \/ SoftStep

SpecKernel == InitKernel /\ [][NextKernel]_vars

----------------------------------------------------------------------------
\* Properties

IsHadamardCall == last.op = "NamedOperation" /\ Accepts(last.req)
Wire == last.req.wires[1]

\* The single shape of request the device is documented to support.
Supported(req) ==
    /\ req.name = "Hadamard"
    /\ Len(req.wires) = 1
    /\ req.params = <<>>
    /\ req.inverse = FALSE
    /\ req.ctrl_wires = <<>>
    /\ req.ctrl_values = <<>>

\* C1: when the accelerator is flagged available and its call returns a
\* non-zero status on an in-range wire, the Hadamard request returns without
\* error and the buffer is what the CPU kernel makes of the buffer held
\* before the call, as on a device without accelerator.
FallbackTransparency ==
    (/\ IsHadamardCall
     /\ last.status # <<>>
     /\ last.status[1] # 0
     /\ Wire < last.before_n)
    => /\ last.err = "none"
       /\ ~crashed
       /\ num_qubits_ = last.before_n
       /\ state_ = applyHadamardCPU(last.before, last.before_n, Wire, Zero)
       /\ state_ = applyHadamard(last.before, last.before_n, FALSE, Wire,
                                 [kernel |-> kernel_build, file |-> xclbin_file,
                                  fault |-> "none", g |-> Zero]).state

FallbackTransparencyWitness ==
    /\ IsHadamardCall
    /\ use_fpga_
    /\ last.status = <<-2>>
    /\ last.before = Basis(4)
    /\ Wire = 1
    /\ state_ = <<InvSqrt2, Zero, InvSqrt2, Zero>>

\* C2: right after AllocateQubit, AllocateQubits(n >= 1) or ReleaseQubit on
\* a device with count > 0 the buffer is |0...0>: amplitude 1 at index 0 and
\* 0 everywhere else.
ResetOnAllocation ==
    (\/ last.op = "AllocateQubit"
     \/ last.op = "AllocateQubits" /\ last.arg >= 1
     \/ last.op = "ReleaseQubit" /\ last.before_n > 0)
    => state_ = Basis(Len(state_))

\* C3: the buffer length is 2^(qubit count) in every reachable state.
LengthInvariant == Len(state_) = Pow2(num_qubits_)

\* C3 as amended: the buffer length is 2^(qubit count), except that with
\* count 0 the buffer may be empty (as the constructor and ReleaseAllQubits
\* leave it).
LengthInvariantAmended ==
    \/ Len(state_) = Pow2(num_qubits_)
    \/ num_qubits_ = 0 /\ Len(state_) = 0

LengthInvariantWitness ==
    /\ last.op = "ReleaseQubit"
    /\ last.before_n = 2
    /\ last.before # Basis(4)
    /\ num_qubits_ = 1
    /\ Len(state_) = 2

\* C4: every request other than the supported shape (name "Hadamard", one
\* wire, no parameters, not inverse, no control wires, no control values) is
\* refused with UnsupportedOperation, count and buffer unchanged.
UnsupportedShapeRejected ==
    (last.op = "NamedOperation" /\ ~Supported(last.req))
    => /\ last.err = "UnsupportedOperation"
       /\ state_ = last.before
       /\ num_qubits_ = last.before_n

\* C5: a Hadamard request whose wire is outside [0, qubit count) fails
\* before the buffer is touched: buffer and count unchanged, no index out of
\* bounds accessed.
InvalidTargetRejected ==
    (IsHadamardCall /\ Wire >= last.before_n)
    => /\ last.err = "InvalidTarget"
       /\ ~last.oob
       /\ state_ = last.before
       /\ num_qubits_ = last.before_n

\* C6: AllocateQubits(n >= 1) from count c leaves count c + n (as reported
\* by GetNumQubits), a buffer of length 2^(c+n), and returns c, ..., c+n-1 in
\* order; AllocateQubit does the same with n = 1.
AllocationMonotonic ==
    /\ (last.op = "AllocateQubits" /\ last.arg >= 1)
       => /\ GetNumQubits(num_qubits_) = last.before_n + last.arg
          /\ Len(state_) = Pow2(last.before_n + last.arg)
          /\ last.ret = [i \in 1..last.arg |-> last.before_n + i - 1]
    /\ last.op = "AllocateQubit"
       => /\ GetNumQubits(num_qubits_) = last.before_n + 1
          /\ Len(state_) = Pow2(last.before_n + 1)
          /\ last.ret = <<last.before_n>>

AllocationMonotonicWitness ==
    /\ last.op = "AllocateQubits"
    /\ last.arg = 1
    /\ last.before_n = 1
    /\ last.ret = <<1>>
    /\ Len(state_) = 4

\* C7: ReleaseQubit(id) leaves count max(count - 1, 0) and the same device
\* state whatever id is; with count 0 it changes nothing and does not fail.
ReleaseFloor ==
    last.op = "ReleaseQubit"
    => /\ num_qubits_ = Max(last.before_n - 1, 0)
       /\ last.err = "none"
       /\ last.before_n = 0 => state_ = last.before
       /\ \A id \in Wires :
            ReleaseQubit(last.before, last.before_n, id)
                = [state |-> state_, num_qubits |-> num_qubits_]

ReleaseFloorWitness ==
    /\ last.op = "ReleaseQubit"
    /\ last.arg = MaxQubits
    /\ last.before_n = 1
    /\ num_qubits_ = 0

\* C8: State into a caller buffer of another length than the state buffer
\* fails with SizeMismatch and changes neither the device nor the caller's
\* buffer; with equal lengths it copies every amplitude and leaves the
\* device unchanged.
SizeMismatchDetection ==
    last.op = "State"
    => /\ state_ = last.before
       /\ num_qubits_ = last.before_n
       /\ Len(last.view0) # Len(last.before)
          => last.err = "SizeMismatch" /\ last.view = last.view0
       /\ Len(last.view0) = Len(last.before)
          => last.err = "none" /\ last.view = last.before

SizeMismatchWitness ==
    /\ last.op = "State"
    /\ last.err = "SizeMismatch"
    /\ Len(last.view0) = 2
    /\ Len(state_) = 4
    /\ last.view = <<MinusOne, MinusOne>>

\* C9: use_fpga_ is what the constructor found and never changes; while it
\* is off every Hadamard request runs the CPU kernel alone, the accelerator
\* is not called.
AvailabilityFixed ==
    [][/\ use_fpga_' = use_fpga_
       /\ (~use_fpga_ /\ gates' # gates)
          => last'.path = <<"cpu">> /\ last'.status = <<>>]_vars

AvailabilityFixedWitness ==
    /\ ~use_fpga_
    /\ xclbin_file
    /\ IsHadamardCall
    /\ last.path = <<"cpu">>
    /\ last.status = <<>>

\* C10: two applications of the CPU kernel on the same in-range target give
\* back the buffer held before the first.
DoubleHadamardIdentity ==
    (/\ last.op = "applyHadamardCPU"
     /\ last.kwire >= 0
     /\ last.pwire = last.kwire)
    => state_ = last.before2

DoubleHadamardWitness ==
    /\ last.op = "applyHadamardCPU"
    /\ last.kwire = 1
    /\ last.pwire = 1
    /\ last.before # state_
    /\ state_ = <<Zero, ImagI, Zero, Zero>>

\* Squared magnitudes, exact: ((p + q*sqrt 2)/2^k)^2 =
\*   (p^2 + 2q^2 + 2pq*sqrt 2)/2^(2k)
RSquare(a) == Norm(<<a[1] * a[1] + 2 * a[2] * a[2], 2 * a[1] * a[2],
                     2 * a[3], a[4]>>)
RECURSIVE SumSq(_, _)
SumSq(v, i) ==
    IF i > Len(v) THEN R(0, 0, 0)
    ELSE RAdd(RAdd(RSquare(v[i].re), RSquare(v[i].im)), SumSq(v, i + 1))
NormSq(v) == SumSq(v, 1)

\* C11: the CPU kernel on an in-range target leaves the sum of the squared
\* magnitudes of the buffer as it was, so a normalized input gives a
\* normalized output.
NormalizationPreserved ==
    last.op = "applyHadamardCPU" => NormSq(state_) = NormSq(last.before)

\* a normalized input with two non-zero amplitudes after the kernel ran, and
\* an input of norm 2
NormalizationWitness ==
    /\ last.op = "applyHadamardCPU"
    /\ NormSq(last.before) = R(1, 0, 0)
    /\ Cardinality({i \in 1..Len(state_) : state_[i] # Zero}) = 2
    /\ state_ # last.before

\* C12: the CPU kernel on wire w of the n-qubit state |0...0>, 0 <= w < n,
\* gives 1/sqrt(2) at indices 0 and 2^w and zero everywhere else; with 3
\* qubits and wire 1 these are the indices 0 and 2.
BitToWireMapping ==
    (last.op = "applyHadamardCPU" /\ last.before = Basis(Pow2(num_qubits_)))
        => state_ = [i \in 1..Pow2(num_qubits_) |->
                        IF i - 1 \in {0, Pow2(last.arg)} THEN InvSqrt2 ELSE Zero]

\* 3 qubits, wire 1: amplitudes at indices 0 and 2 only
BitToWireWitness ==
    /\ last.op = "applyHadamardCPU" /\ last.before = Basis(Pow2(3))
    /\ num_qubits_ = 3 /\ last.arg = 1
    /\ {i \in 1..Len(state_) : state_[i] # Zero} = {1, 3}
    /\ state_[1] = InvSqrt2 /\ state_[3] = InvSqrt2

\* C13: Measure reports the same fixed outcome for every wire and every
\* postselect value in every state, and leaves the buffer and the qubit
\* count as they were.
MeasureIsStub ==
    last.op = "Measure"
        => /\ last.ret = <<1>>
           /\ state_ = last.before
           /\ num_qubits_ = last.before_n

\* Measure on a one-qubit state in equal superposition
MeasureIsStubWitness ==
    /\ last.op = "Measure" /\ last.ret = <<1>>
    /\ num_qubits_ = 1 /\ Len(state_) = 2
    /\ state_[1] = InvSqrt2 /\ state_[2] = InvSqrt2

\* C14: GetDeviceShots returns 0 whatever SetDeviceShots was given before,
\* and SetDeviceShots changes neither the qubit count nor the buffer.
ShotsHaveNoEffect ==
    /\ last.op = "GetDeviceShots" => last.ret = <<0>>
    /\ last.op \in {"SetDeviceShots", "GetDeviceShots"}
        => state_ = last.before /\ num_qubits_ = last.before_n

\* GetDeviceShots right after SetDeviceShots(1000) on a device with qubits
ShotsHaveNoEffectWitness ==
    /\ last.op = "GetDeviceShots" /\ last.pshots = 1000
    /\ last.ret = <<0>> /\ num_qubits_ > 0

\* C15: AllocateQubits(0) returns an empty sequence of identifiers and
\* changes neither the qubit count nor the buffer.
AllocateZeroIsNoOp ==
    (last.op = "AllocateQubits" /\ last.arg = 0)
        => /\ last.ret = <<>>
           /\ state_ = last.before
           /\ num_qubits_ = last.before_n

\* AllocateQubits(0) on a one-qubit device in superposition
AllocateZeroWitness ==
    /\ last.op = "AllocateQubits" /\ last.arg = 0 /\ last.ret = <<>>
    /\ num_qubits_ = 1 /\ state_[2] = InvSqrt2

\* C16: on an in-range target t the loop of the CPU kernel takes each
\* unordered pair {a, a XOR 2^t} exactly once, when the loop index is the
\* lower index a; it writes every output index exactly once; and it sets
\* new[a] = (old[a] + old[b])/sqrt(2) and new[b] = (old[a] - old[b])/sqrt(2)
\* from the amplitudes the buffer held before the call.
CPUButterfly ==
    last.op = "applyHadamardCPU" =>
        LET dim == Pow2(num_qubits_)
            t == last.arg
            old == last.before
            log == CPUWrites(0, dim, t, <<>>)
        IN  /\ \A k \in 1..Len(log) :
                   /\ log[k][1] < log[k][2]
                   /\ log[k][2] = log[k][1] + Pow2(t)
                   /\ state_[log[k][1] + 1]
                        = CScale(CAdd(old[log[k][1] + 1], old[log[k][2] + 1]))
                   /\ state_[log[k][2] + 1]
                        = CScale(CSub(old[log[k][1] + 1], old[log[k][2] + 1]))
            /\ \A a \in 0..(dim - 1) :
                   /\ Cardinality({k \in 1..Len(log) :
                                     {a, XorBit(a, t)} = {log[k][1], log[k][2]}}) = 1
                   /\ Cardinality({w \in (1..Len(log)) \X {1, 2} :
                                     log[w[1]][w[2]] = a}) = 1

\* a two-qubit buffer with both amplitudes of a pair non-zero, so that the
\* second output differs according to which value of the first it reads
CPUButterflyWitness ==
    /\ last.op = "applyHadamardCPU" /\ num_qubits_ = 2 /\ last.arg = 1
    /\ last.before = <<One, Zero, One, Zero>>
    /\ state_[1] = CScale(CAdd(One, One)) /\ state_[3] = Zero

\* Number of times kernel k was run in the latest call
Runs(k) == Cardinality({i \in 1..Len(last.path) : last.path[i] = k})

\* C17: when the accelerator is available and returns status 0, the buffer
\* it returned, as long as its input, becomes the state (on an in-range
\* wire: the accelerator's output for the buffer held before the call) and
\* the CPU kernel is not run; in every Hadamard dispatch the accelerator is invoked at most
\* once, and the CPU kernel runs exactly when the accelerator is unavailable
\* or returned a non-zero status.
DispatchOnSuccess ==
    IsHadamardCall =>
        /\ Runs("fpga") <= 1 /\ Runs("cpu") <= 1
        /\ Len(last.status) = Runs("fpga")
        /\ Runs("fpga") = 1 <=> use_fpga_
        /\ Runs("cpu") = 1 <=> (~use_fpga_ \/ last.status # <<0>>)
        /\ (use_fpga_ /\ last.status = <<0>>) =>
               /\ last.path = <<"fpga">>
               /\ Len(state_) = Len(last.before)
               /\ (last.err = "none" /\ Wire < last.before_n) =>
                      state_ = hadamard_kernel_execute(
                                   last.before,
                                   [i \in 1..Len(last.before) |-> Zero],
                                   Wire, last.before_n,
                                   [kernel |-> kernel_build, file |-> TRUE,
                                    fault |-> "none", g |-> Zero]).output

\* the hardware kernel returned 0 and its single-precision output is the
\* new state
DispatchOnSuccessWitness ==
    /\ IsHadamardCall /\ use_fpga_ /\ kernel_build
    /\ last.status = <<0>> /\ last.path = <<"fpga">> /\ last.err = "none"
    /\ Len(state_) = 2 /\ state_ # last.before
    /\ state_[1].re[4] = 1

\* C18: a fault thrown by the device stack during the accelerator call
\* comes out of the accelerator as a non-zero status; the output buffer is
\* not installed, the request does not fail with the fault, and the CPU
\* kernel computes the new state from the buffer held before the call.
FaultConversion ==
    (IsHadamardCall /\ last.fault # "none") =>
        /\ last.status \in {<<-1>>, <<-2>>}
        /\ last.path = <<"fpga", "cpu">>
        /\ last.err \in {"none", "crash"}
        /\ Wire < last.before_n =>
               /\ last.err = "none"
               /\ state_ = applyHadamardCPU(last.before, last.before_n,
                                            Wire, Zero)

\* the device stack threw although the bitstream is in place; the state is
\* the double-precision result of the CPU kernel
FaultConversionWitness ==
    /\ IsHadamardCall /\ last.fault = "xrt" /\ xclbin_file
    /\ last.status = <<-2>> /\ last.err = "none"
    /\ Wire < num_qubits_
    /\ state_ # last.before /\ state_[1] = InvSqrt2

\* C19: in the build without the hardware kernel, hadamard_kernel_execute
\* returns status 0 and an output equal, index by index, to what
\* applyHadamardCPU computes from the same input, for every buffer of length
\* 2^n and every in-range target.
KernelEquivalence ==
    (last.op = "hadamard_kernel_execute" /\ ~kernel_build) =>
        /\ last.status = <<0>>
        /\ Len(state_) = Len(last.before)
        /\ \A i \in 1..Len(state_) :
               state_[i] = applyHadamardCPU(last.before, num_qubits_,
                                           last.arg, Zero)[i]

\* both amplitudes of the pair non-zero: the second output depends on
\* reading the old first amplitude
KernelEquivalenceWitness ==
    /\ last.op = "hadamard_kernel_execute" /\ ~kernel_build
    /\ last.before = <<One, One>>
    /\ state_ = <<CScale(CAdd(One, One)), Zero>>

\* A Hadamard request dispatched to the accelerator on a device with no
\* qubits and an empty buffer
EmptyDispatch ==
    /\ IsHadamardCall /\ use_fpga_
    /\ last.before = <<>> /\ last.before_n = 0

\* C20 as stated: hadamard_host_xrt returns -1 on an input whose length is
\* not 2^num_qubits, so on a device with an empty buffer and count 0 the
\* accelerator path of a Hadamard request always reports failure and the
\* dispatcher takes the CPU fallback.
LengthGuard ==
    EmptyDispatch => last.status # <<0>> /\ last.path = <<"fpga", "cpu">>

\* C20, amended: hadamard_host_xrt returns -1, without touching the device
\* or the output buffer, whenever the input length is not 2^num_qubits; in
\* the build with the hardware kernel a Hadamard request on a device with an
\* empty buffer and count 0 therefore gets status -1 from the accelerator
\* path and the CPU fallback runs; in the build without it the software path
\* has no such check: no fallback runs, and the call returns 0 unless its
\* out-of-bounds access to the empty buffer ends the process.
LengthGuardAmended ==
    /\ \A n \in 0..MaxQubits, t \in Wires, f \in Faults, file \in BOOLEAN :
          Len(state_) # Pow2(n) =>
              LET output_state == [i \in 1..Len(state_) |-> Zero]
              IN  hadamard_host_xrt(
                      [i \in 1..Len(state_) |-> CToFloat(state_[i])],
                      output_state, t, n,
                      [kernel |-> TRUE, file |-> file, fault |-> f, g |-> One])
                  = [status |-> -1, output |-> output_state, device |-> FALSE]
    /\ EmptyDispatch =>
          IF kernel_build
          THEN last.status = <<-1>> /\ last.path = <<"fpga", "cpu">>
          ELSE /\ last.path = <<"fpga">>
               /\ last.err = "none" => last.status = <<0>>

\* the hardware build with the bitstream in place and no fault: the length
\* check alone makes the accelerator path fail
LengthGuardWitness ==
    /\ EmptyDispatch /\ kernel_build /\ xclbin_file
    /\ last.fault = "none"
    /\ last.status = <<-1>> /\ last.path = <<"fpga", "cpu">>

============================================================================
